---- MODULE Spec2Model ----
(***************************************************************************)
(* WebChess (src/main.js, the complete draft at lines 44-465): the board   *)
(* model, the per-piece move projection and the click-driven selection     *)
(* state machine.  Every click runs handleSquareClicked to completion, so  *)
(* one click is one atomic step.                                           *)
(***************************************************************************)
EXTENDS Integers, Sequences, FiniteSets, TLC

\* ------------------------------------------------------------ constants
BOARD_DIMENSION == 8
POTENTIAL_MOVE_COLOR == "green"
ACTIVE_COLOR == "red"
PieceType == {"pawn", "rook", "knight", "bishop", "queen", "king"}
Color == {"black", "white"}

\* ------------------------------------------------------------ bounds
\* Number of clicks followed from the initial state.
MaxClicks == 4
\* Number of pieces drawn beside the piece under projection.
MaxBlockers == 1

\* ------------------------------------------------------------ values
Rows == 0 .. (BOARD_DIMENSION - 1)
Pos == [row : Rows, col : Rows]
\* JavaScript null for a Piece and for a Position.
NoPiece == [type |-> "null", color |-> "null"]
NoPos == [row |-> -1, col |-> -1]
P(r, c) == [row |-> r, col |-> c]

VARIABLES
    board,              \* board[row][col]: piece, backgroundColor, active, moveable
    style,              \* style[row][col]: the square element's style.backgroundColor
    children,           \* children[row][col]: the square element's child images
    activePos,          \* Position or NoPos
    moveablePositions,  \* the positions pushed by checkAndSetPotentialMove
    thrown,             \* some handler ended in an exception
    clicks,             \* number of clicks so far (bounded by MaxClicks)
    origin,             \* the square under projection (NoPos in Spec)
    last                \* facts about the state the latest click was made in

vars == <<board, style, children, activePos, moveablePositions, thrown,
          clicks, origin, last>>

\* The program state as one record, threaded through the imperative code.
Cur ==
    [board |-> board, style |-> style, children |-> children,
     activePos |-> activePos, moveablePositions |-> moveablePositions,
     threw |-> FALSE]

\* ------------------------------------------------------------ set-up
getBackgroundColor(color) ==
    IF color = "white" THEN "#f0d9b5" ELSE "#b58863"

\* createBackRowElement with the king on column 3 and the queen on column 4.
createBackRowElementKingFirst(col, color) ==
    LET pieceType ==
            CASE col = 0 \/ col = BOARD_DIMENSION - 1 -> "rook"
              [] col = 1 \/ col = BOARD_DIMENSION - 2 -> "knight"
              [] col = 2 \/ col = BOARD_DIMENSION - 3 -> "bishop"
              [] col = 3 -> "king"
              [] col = 4 -> "queen"
    IN  [type |-> pieceType, color |-> color]

createBackRowElement(col, color) ==
    LET pieceType ==
            CASE col = 0 \/ col = BOARD_DIMENSION - 1 -> "rook"
              [] col = 1 \/ col = BOARD_DIMENSION - 2 -> "knight"
              [] col = 2 \/ col = BOARD_DIMENSION - 3 -> "bishop"
              [] col = 3 -> "queen"
              [] col = 4 -> "king"
    IN  [type |-> pieceType, color |-> color]

createPieceForSquare(row, col) ==
    IF row = BOARD_DIMENSION - 2 THEN [type |-> "pawn", color |-> "white"]
    ELSE IF row = 1 THEN [type |-> "pawn", color |-> "black"]
    ELSE IF row = BOARD_DIMENSION - 1 THEN createBackRowElement(col, "white")
    ELSE IF row = 0 THEN createBackRowElement(col, "black")
    ELSE NoPiece

squareColor(row, col) ==
    IF (row + col) % 2 = 0 THEN "white" ELSE "black"

\* The board record createBoardSquare stores for a square holding `piece`.
boardSquare(row, col, piece) ==
    [piece |-> piece,
     backgroundColor |-> getBackgroundColor(squareColor(row, col)),
     active |-> FALSE,
     moveable |-> FALSE]

createBoardSquare(row, col) ==
    boardSquare(row, col, createPieceForSquare(row, col))

\* createPieceImg: the image is identified by the piece it was created for.
createPieceImg(piece) == piece

\* checkAndSetPotentialMove raising an error for a target outside the grid
\* instead of returning false.
checkAndSetPotentialMoveStrict(st, row, col, pieceColor) ==
    IF row >= 0 /\ row < BOARD_DIMENSION /\ col >= 0 /\ col < BOARD_DIMENSION
    THEN IF \/ st.board[row][col].piece = NoPiece
            \/ pieceColor # st.board[row][col].piece.color
         THEN [st  |-> [st EXCEPT !.style[row][col] = POTENTIAL_MOVE_COLOR,
                                  !.board[row][col].moveable = TRUE,
                                  !.moveablePositions = Append(@, P(row, col))],
               ret |-> st.board[row][col].piece = NoPiece]
         ELSE [st |-> st, ret |-> FALSE]
    ELSE [st |-> [st EXCEPT !.threw = TRUE], ret |-> FALSE]

\* ------------------------------------------------------------ projection
\* checkAndSetPotentialMove telling its caller to go on past an occupied
\* square.
checkAndSetPotentialMoveThrough(st, row, col, pieceColor) ==
    IF /\ row >= 0 /\ row < BOARD_DIMENSION /\ col >= 0 /\ col < BOARD_DIMENSION
       /\ \/ st.board[row][col].piece = NoPiece
          \/ pieceColor # st.board[row][col].piece.color
    THEN [st  |-> [st EXCEPT !.style[row][col] = POTENTIAL_MOVE_COLOR,
                             !.board[row][col].moveable = TRUE,
                             !.moveablePositions = Append(@, P(row, col))],
          ret |-> TRUE]
    ELSE [st |-> st, ret |-> FALSE]

\* checkAndSetPotentialMove without the test of the occupying piece's side.
checkAndSetPotentialMoveAnySide(st, row, col, pieceColor) ==
    IF row >= 0 /\ row < BOARD_DIMENSION /\ col >= 0 /\ col < BOARD_DIMENSION
    THEN [st  |-> [st EXCEPT !.style[row][col] = POTENTIAL_MOVE_COLOR,
                             !.board[row][col].moveable = TRUE,
                             !.moveablePositions = Append(@, P(row, col))],
          ret |-> st.board[row][col].piece = NoPiece]
    ELSE [st |-> st, ret |-> FALSE]

checkAndSetPotentialMove(st, row, col, pieceColor) ==
    IF /\ row >= 0 /\ row < BOARD_DIMENSION /\ col >= 0 /\ col < BOARD_DIMENSION
       /\ \/ st.board[row][col].piece = NoPiece
          \/ pieceColor # st.board[row][col].piece.color
    THEN [st  |-> [st EXCEPT !.style[row][col] = POTENTIAL_MOVE_COLOR,
                             !.board[row][col].moveable = TRUE,
                             !.moveablePositions = Append(@, P(row, col))],
          ret |-> st.board[row][col].piece = NoPiece]
    ELSE [st |-> st, ret |-> FALSE]

\* displayPawnMoves with the two sides' directions swapped.
displayPawnMovesSwapped(st, color, row, col) ==
    IF color = "white"
    THEN checkAndSetPotentialMove(st, row + 1, col, color).st
    ELSE checkAndSetPotentialMove(st, row - 1, col, color).st

displayPawnMoves(st, color, row, col) ==
    IF color = "white"
    THEN checkAndSetPotentialMove(st, row - 1, col, color).st
    ELSE checkAndSetPotentialMove(st, row + 1, col, color).st

RECURSIVE displayMovesFrom(_, _, _, _, _, _, _)
\* The loop of displayMovesInDirection from its i-th iteration on.
displayMovesFrom(st, i, row, col, rowDir, colDir, color) ==
    IF i < BOARD_DIMENSION
    THEN LET r == checkAndSetPotentialMove(st, row - i * rowDir, col - i * colDir, color)
         IN  IF ~r.ret THEN r.st
             ELSE displayMovesFrom(r.st, i + 1, row, col, rowDir, colDir, color)
    ELSE st

displayMovesInDirection(st, row, col, rowDir, colDir, color) ==
    displayMovesFrom(st, 1, row, col, rowDir, colDir, color)

displayRookMoves(st, row, col, color) ==
    LET s1 == displayMovesInDirection(st, row, col, -1, 0, color)
        s2 == displayMovesInDirection(s1, row, col, 1, 0, color)
        s3 == displayMovesInDirection(s2, row, col, 0, -1, color)
    IN  displayMovesInDirection(s3, row, col, 0, 1, color)

\* knightIteration with the column amount equal to the row amount.
knightIterationSameAmount(st, i, row, col, color) ==
    LET s1 == checkAndSetPotentialMove(st, row - i, col - i, color).st
        s2 == checkAndSetPotentialMove(s1, row - i, col + i, color).st
        s3 == checkAndSetPotentialMove(s2, row + i, col - i, color).st
    IN  checkAndSetPotentialMove(s3, row + i, col + i, color).st

\* One iteration of the loop of displayKnightMoves.
knightIteration(st, i, row, col, color) ==
    LET colAmount == IF i = 1 THEN 2 ELSE 1
        s1 == checkAndSetPotentialMove(st, row - i, col - colAmount, color).st
        s2 == checkAndSetPotentialMove(s1, row - i, col + colAmount, color).st
        s3 == checkAndSetPotentialMove(s2, row + i, col - colAmount, color).st
    IN  checkAndSetPotentialMove(s3, row + i, col + colAmount, color).st

displayKnightMoves(st, row, col, color) ==
    knightIteration(knightIteration(st, 1, row, col, color), 2, row, col, color)

displayBishopMoves(st, row, col, color) ==
    LET s1 == displayMovesInDirection(st, row, col, 1, 1, color)
        s2 == displayMovesInDirection(s1, row, col, -1, 1, color)
        s3 == displayMovesInDirection(s2, row, col, -1, -1, color)
    IN  displayMovesInDirection(s3, row, col, 1, -1, color)

\* displayQueenMoves without its call of displayRookMoves.
displayQueenMovesBishopOnly(st, row, col, color) ==
    displayBishopMoves(st, row, col, color)

displayQueenMoves(st, row, col, color) ==
    displayRookMoves(displayBishopMoves(st, row, col, color), row, col, color)

RECURSIVE displayKingFromAll(_, _, _, _, _)
\* displayKingFrom visiting the king's own square too, and taking a square
\* whatever the side of the piece on it.
displayKingFromAll(st, k, row, col, color) ==
    IF k < 9
    THEN displayKingFromAll(
             checkAndSetPotentialMoveAnySide(
                 st, row - 1 + (k \div 3), col - 1 + (k % 3), color).st,
             k + 1, row, col, color)
    ELSE st

RECURSIVE displayKingFrom(_, _, _, _, _)
\* The nested loops of displayKingMoves, flattened: step k visits
\* r = row - 1 + k \div 3, c = col - 1 + k % 3.
displayKingFrom(st, k, row, col, color) ==
    IF k < 9
    THEN LET r == row - 1 + (k \div 3)
             c == col - 1 + (k % 3)
             s == IF r # row \/ c # col
                  THEN checkAndSetPotentialMove(st, r, c, color).st
                  ELSE st
         IN  displayKingFrom(s, k + 1, row, col, color)
    ELSE st

displayKingMoves(st, row, col, color) ==
    displayKingFrom(st, 0, row, col, color)

\* displayPotentialMoves without the case of the king, which then falls to
\* the default.
displayPotentialMovesNoKing(st, piece, row, col) ==
    CASE piece.type = "pawn" -> displayPawnMoves(st, piece.color, row, col)
      [] piece.type = "rook" -> displayRookMoves(st, row, col, piece.color)
      [] piece.type = "knight" -> displayKnightMoves(st, row, col, piece.color)
      [] piece.type = "bishop" -> displayBishopMoves(st, row, col, piece.color)
      [] piece.type = "queen" -> displayQueenMoves(st, row, col, piece.color)
      [] OTHER -> [st EXCEPT !.threw = TRUE]

displayPotentialMoves(st, piece, row, col) ==
    CASE piece.type = "pawn" -> displayPawnMoves(st, piece.color, row, col)
      [] piece.type = "rook" -> displayRookMoves(st, row, col, piece.color)
      [] piece.type = "knight" -> displayKnightMoves(st, row, col, piece.color)
      [] piece.type = "bishop" -> displayBishopMoves(st, row, col, piece.color)
      [] piece.type = "queen" -> displayQueenMoves(st, row, col, piece.color)
      [] piece.type = "king" -> displayKingMoves(st, row, col, piece.color)
      [] OTHER -> [st EXCEPT !.threw = TRUE]

\* ------------------------------------------------------------ selection
RECURSIVE clearMoveableFrom(_, _)
\* The forEach of clearPreviousActive from the k-th moveable position on.
clearMoveableFrom(st, k) ==
    IF k <= Len(st.moveablePositions)
    THEN LET pos == st.moveablePositions[k]
         IN  clearMoveableFrom(
                 [st EXCEPT !.style[pos.row][pos.col] =
                                st.board[pos.row][pos.col].backgroundColor,
                            !.board[pos.row][pos.col].moveable = FALSE],
                 k + 1)
    ELSE st

\* clearPreviousActive without the reset of moveablePositions.
clearPreviousActiveKeepList(st) ==
    IF st.activePos # NoPos
    THEN LET ap == st.activePos
             s1 == [st EXCEPT !.style[ap.row][ap.col] =
                                  st.board[ap.row][ap.col].backgroundColor,
                              !.board[ap.row][ap.col].active = FALSE]
         IN  clearMoveableFrom(s1, 1)
    ELSE st

\* clearPreviousActive without the restoring of the active square's colour.
clearPreviousActiveKeepColor(st) ==
    IF st.activePos # NoPos
    THEN LET ap == st.activePos
             s1 == [st EXCEPT !.board[ap.row][ap.col].active = FALSE]
             s2 == clearMoveableFrom(s1, 1)
         IN  [s2 EXCEPT !.moveablePositions = <<>>]
    ELSE st

clearPreviousActive(st) ==
    IF st.activePos # NoPos
    THEN LET ap == st.activePos
             s1 == [st EXCEPT !.style[ap.row][ap.col] =
                                  st.board[ap.row][ap.col].backgroundColor,
                              !.board[ap.row][ap.col].active = FALSE]
             s2 == clearMoveableFrom(s1, 1)
         IN  [s2 EXCEPT !.moveablePositions = <<>>]
    ELSE st

\* updateActiveState leaving activePos as it was when the clicked square is
\* toggled off.
updateActiveStateKeepPos(st, row, col) ==
    LET s0 == [st EXCEPT !.board[row][col].active = ~@]
        s1 == clearPreviousActive(s0)
    IN  IF s1.board[row][col].active
        THEN LET s2 == [s1 EXCEPT !.style[row][col] = ACTIVE_COLOR]
                 s3 == IF s2.board[row][col].piece # NoPiece
                       THEN displayPotentialMoves(s2, s2.board[row][col].piece, row, col)
                       ELSE s2
             IN  [s3 EXCEPT !.activePos = P(row, col)]
        ELSE [s1 EXCEPT !.style[row][col] = s1.board[row][col].backgroundColor]

\* updateActiveState without its call of clearPreviousActive.
updateActiveStateNoClear(st, row, col) ==
    LET s1 == [st EXCEPT !.board[row][col].active = ~@]
    IN  IF s1.board[row][col].active
        THEN LET s2 == [s1 EXCEPT !.style[row][col] = ACTIVE_COLOR]
                 s3 == IF s2.board[row][col].piece # NoPiece
                       THEN displayPotentialMoves(s2, s2.board[row][col].piece, row, col)
                       ELSE s2
             IN  [s3 EXCEPT !.activePos = P(row, col)]
        ELSE [s1 EXCEPT !.style[row][col] = s1.board[row][col].backgroundColor,
                        !.activePos = NoPos]

updateActiveState(st, row, col) ==
    LET s0 == [st EXCEPT !.board[row][col].active = ~@]
        s1 == clearPreviousActive(s0)
    IN  IF s1.board[row][col].active
        THEN LET s2 == [s1 EXCEPT !.style[row][col] = ACTIVE_COLOR]
                 s3 == IF s2.board[row][col].piece # NoPiece
                       THEN displayPotentialMoves(s2, s2.board[row][col].piece, row, col)
                       ELSE s2
             IN  IF s3.threw THEN s3
                 ELSE [s3 EXCEPT !.activePos = P(row, col)]
        ELSE [s1 EXCEPT !.style[row][col] = s1.board[row][col].backgroundColor,
                        !.activePos = NoPos]

\* moveToSelectedPosition leaving the piece on the square it came from.
moveToSelectedPositionCopy(st, row, col) ==
    IF st.activePos # NoPos /\ st.children[st.activePos.row][st.activePos.col] # <<>>
    THEN LET ap == st.activePos
             s1 == [st EXCEPT !.board[row][col].piece = st.board[ap.row][ap.col].piece,
                              !.children[row][col] = st.children[ap.row][ap.col]]
         IN  [clearPreviousActive(s1) EXCEPT !.activePos = NoPos]
    ELSE st

\* moveToSelectedPosition without its call of clearPreviousActive.
moveToSelectedPositionNoClear(st, row, col) ==
    IF st.activePos # NoPos /\ st.children[st.activePos.row][st.activePos.col] # <<>>
    THEN LET ap == st.activePos
         IN  [st EXCEPT !.board[row][col].piece = st.board[ap.row][ap.col].piece,
                        !.board[ap.row][ap.col].piece = NoPiece,
                        !.children[row][col] = st.children[ap.row][ap.col],
                        !.children[ap.row][ap.col] = <<>>,
                        !.activePos = NoPos]
    ELSE st

moveToSelectedPosition(st, row, col) ==
    IF st.activePos # NoPos
    THEN LET ap == st.activePos
             kids == st.children[ap.row][ap.col]
         IN  IF kids = <<>>
             \* children[0] is undefined and removeChild(undefined) throws
             THEN [st EXCEPT !.threw = TRUE]
             ELSE LET pieceImg == Head(kids)
                      s1 == [st EXCEPT !.children[ap.row][ap.col] = Tail(@)]
                      s2 == [s1 EXCEPT !.board[row][col].piece =
                                           s1.board[ap.row][ap.col].piece]
                      s3 == [s2 EXCEPT !.board[ap.row][ap.col].piece = NoPiece]
                      s4 == IF Len(s3.children[row][col]) > 0
                            THEN [s3 EXCEPT !.children[row][col] = Tail(@)]
                            ELSE s3
                      s5 == [s4 EXCEPT !.children[row][col] = Append(@, pieceImg)]
                      s6 == clearPreviousActive(s5)
                  IN  [s6 EXCEPT !.activePos = NoPos]
    ELSE st

\* handleSquareClicked moving whenever a square is active, without the test
\* of the clicked square's moveable flag.
handleSquareClickedAnyTarget(st, row, col) ==
    IF st.activePos # NoPos
    THEN moveToSelectedPosition(st, row, col)
    ELSE updateActiveState(st, row, col)

handleSquareClicked(st, row, col) ==
    IF st.board[row][col].moveable
    THEN moveToSelectedPosition(st, row, col)
    ELSE updateActiveState(st, row, col)

\* ------------------------------------------------------------ state machine
\* Views of the state the properties are written in.
pieceAt(p) == board[p.row][p.col].piece
Candidates == {moveablePositions[k] : k \in 1 .. Len(moveablePositions)}
ActiveSquares == {p \in Pos : board[p.row][p.col].active}
MoveableSquares == {p \in Pos : board[p.row][p.col].moveable}
\* The squares whose displayed colour is not their own base colour.
Highlighted == {p \in Pos : style[p.row][p.col] # board[p.row][p.col].backgroundColor}

\* Facts about the state a click on (row, col) is made in, kept for the
\* properties: they are read from the state before the handler runs.
Facts(row, col) ==
    [pos |-> P(row, col),
     piece |-> board[row][col].piece,
     hadActive |-> activePos # NoPos,
     wasSame |-> activePos = P(row, col),
     wasCandidate |-> P(row, col) \in Candidates,
     from |-> IF P(row, col) \in Candidates THEN activePos ELSE NoPos]

NoFacts ==
    [pos |-> NoPos, piece |-> NoPiece, hadActive |-> FALSE, wasSame |-> FALSE,
     wasCandidate |-> FALSE, from |-> NoPos]

\* The click event of createBoardSquare's listener on square (row, col).
Click(row, col) ==
    LET s == handleSquareClicked(Cur, row, col)
    IN  /\ board' = s.board
        /\ style' = s.style
        /\ children' = s.children
        /\ activePos' = s.activePos
        /\ moveablePositions' = s.moveablePositions
        /\ thrown' = (thrown \/ s.threw)
        /\ clicks' = clicks + 1
        /\ last' = Facts(row, col)
        /\ UNCHANGED origin

\* createBoard: the program state once DOMContentLoaded has run.
createBoard ==
    [board |-> [r \in Rows |-> [c \in Rows |-> createBoardSquare(r, c)]],
     style |-> [r \in Rows |-> [c \in Rows |->
                   getBackgroundColor(squareColor(r, c))]],
     children |-> [r \in Rows |-> [c \in Rows |->
                   IF createPieceForSquare(r, c) # NoPiece
                   THEN <<createPieceImg(createPieceForSquare(r, c))>>
                   ELSE <<>>]],
     activePos |-> NoPos,
     moveablePositions |-> <<>>,
     threw |-> FALSE]

\* The variables hold program state s, nothing clicked yet.
StartIn(s) ==
    /\ board = s.board
    /\ style = s.style
    /\ children = s.children
    /\ activePos = s.activePos
    /\ moveablePositions = s.moveablePositions
    /\ thrown = FALSE
    /\ clicks = 0
    /\ last = NoFacts

Init ==
    /\ StartIn(createBoard)
    /\ origin = NoPos

SquareClicked ==
    /\ clicks < MaxClicks
    /\ \E row \in Rows, col \in Rows : Click(row, col)

Next == SquareClicked

Spec == Init /\ [][Next]_vars

\* ------------------------------------------------------------ a later position
RECURSIVE clickAll(_, _, _)
\* The program state after the clicks cs[k], cs[k+1], ... made in state st.
clickAll(st, cs, k) ==
    IF k <= Len(cs)
    THEN clickAll(handleSquareClicked(st, cs[k][1], cs[k][2]), cs, k + 1)
    ELSE st

\* Four clicks on the starting board: the white knight of (7,1) goes to
\* (5,2) and on to (3,3), where it attacks the black pawns of (1,2), (1,4).
Opening == << <<7, 1>>, <<5, 2>>, <<5, 2>>, <<3, 3>> >>

InitPlay ==
    /\ StartIn(clickAll(createBoard, Opening, 1))
    /\ origin = NoPos

SpecPlay == InitPlay /\ [][Next]_vars

\* ------------------------------------------------------------ drawn positions
\* Positions for the projection: one piece of any kind and side on an origin
\* square, and up to MaxBlockers other pieces near it.
Pieces == [type : PieceType, color : Color]

\* Origin coordinates: both edges, next to an edge, and inside the grid.
OriginCoords == {0, 1, 4, 7}
OriginSquares == [row : OriginCoords, col : OriginCoords]

Abs(x) == IF x < 0 THEN -x ELSE x

\* The squares other pieces are drawn on: every square one or two steps
\* from the origin along a rank, file or diagonal, and every knight jump.
Near(o) ==
    {p \in Pos : p # o /\ Abs(p.row - o.row) <= 2 /\ Abs(p.col - o.col) <= 2}

RECURSIVE Placements(_, _)
\* The sets of at most k pieces of either side on distinct squares of S.
Placements(S, k) ==
    IF k = 0 THEN {{}}
    ELSE LET less == Placements(S, k - 1)
         IN  less \cup
             {T \cup {[pos |-> p, color |-> c]} :
                 T \in less,
                 p \in S,
                 c \in Color}

\* The kind of a drawn other piece: a knight on a light square, a rook on a
\* dark one.
otherPiece(b) ==
    [type |-> IF squareColor(b.pos.row, b.pos.col) = "white" THEN "knight" ELSE "rook",
     color |-> b.color]

\* How many pieces of each kind and side the starting layout has.
startCount ==
    [q \in Pieces |->
        Cardinality({p \in Pos : createPieceForSquare(p.row, p.col) = q})]

\* A drawn position is one a game can be in: no two pieces on a square, no
\* more pieces of a kind and side than the starting layout has, and a pawn
\* only on a row it can walk to.
Startable(o, piece, others) ==
    /\ \A a, b \in others : a.pos = b.pos => a = b
    /\ \A q \in {piece} \cup {otherPiece(b) : b \in others} :
          Cardinality({b \in others : otherPiece(b) = q})
              + (IF piece = q THEN 1 ELSE 0) <= startCount[q]
    /\ piece.type = "pawn" =>
          IF piece.color = "white" THEN o.row < BOARD_DIMENSION - 1 ELSE o.row > 0

\* The program state of a board without pieces, nothing selected.
emptyState ==
    [board |-> [r \in Rows |-> [c \in Rows |-> boardSquare(r, c, NoPiece)]],
     style |-> [r \in Rows |-> [c \in Rows |->
                   getBackgroundColor(squareColor(r, c))]],
     children |-> [r \in Rows |-> [c \in Rows |-> <<>>]],
     activePos |-> NoPos,
     moveablePositions |-> <<>>,
     threw |-> FALSE]

\* State st with `piece` and its image put on the empty square p.
place(st, p, piece) ==
    [st EXCEPT !.board[p.row][p.col].piece = piece,
               !.children[p.row][p.col] = <<createPieceImg(piece)>>]

RECURSIVE placeAll(_, _)
placeAll(st, others) ==
    IF others = {} THEN st
    ELSE LET b == CHOOSE x \in others : TRUE
         IN  placeAll(place(st, b.pos, otherPiece(b)), others \ {b})

\* The program state with the drawn position on the board, nothing selected.
drawnState(o, piece, others) ==
    placeAll(place(emptyState, o, piece), others)

InitProj ==
    \E o \in OriginSquares, piece \in Pieces :
        \E others \in Placements(Near(o), MaxBlockers) :
            /\ Startable(o, piece, others)
            /\ StartIn(drawnState(o, piece, others))
            /\ origin = o

\* The projection applied: a click on the origin square of a drawn position.
Project ==
    /\ clicks = 0
    /\ Click(origin.row, origin.col)

NextProj == Project

SpecProj == InitProj /\ [][NextProj]_vars

\* ------------------------------------------------------------ properties

\* C1: a move is a pure relocation.  In a state with active square p, a click
\* on a candidate square q leaves p without a piece and q with the piece p
\* held, whatever q held before, and leaves every other square's piece alone.
C1_MoveIsRelocation ==
    [][\A q \in Pos :
          (last'.pos = q /\ activePos # NoPos /\ q \in Candidates) =>
              \A p \in Pos :
                  (activePos = p) =>
                      /\ board'[p.row][p.col].piece = NoPiece
                      /\ board'[q.row][q.col].piece = board[p.row][p.col].piece
                      /\ \A x \in Pos \ {p, q} :
                            board'[x.row][x.col].piece = board[x.row][x.col].piece]_vars

\* C1 witness: the latest click moved a piece onto a square that held a
\* piece (a capture).
C1_Witness ==
    /\ last.wasCandidate /\ last.hadActive
    /\ last.piece # NoPiece
    /\ pieceAt(last.pos) # NoPiece
    /\ pieceAt(last.pos).color # last.piece.color
    /\ pieceAt(last.from) = NoPiece

\* C2: after every successful move (a click on a candidate square while a
\* square is active) the selection is empty: no active position, no
\* candidate, no square flagged active or moveable.
C2_MoveResetsSelection ==
    (last.wasCandidate /\ last.hadActive) =>
        /\ activePos = NoPos
        /\ moveablePositions = <<>>
        /\ ActiveSquares = {}
        /\ MoveableSquares = {}

\* C2 witness: the latest click was a move of a piece that had more than one
\* candidate square.
C2_Witness ==
    /\ last.wasCandidate /\ last.hadActive
    /\ pieceAt(last.pos) # NoPiece
    /\ pieceAt(last.pos).type = "knight"
    /\ activePos = NoPos

\* C3: at most one square is flagged active, and a square is flagged active
\* exactly when it is the recorded active position.
C3_OneActiveSquare ==
    /\ Cardinality(ActiveSquares) <= 1
    /\ \A p \in Pos : board[p.row][p.col].active <=> (p = activePos)

\* C3 witness: a square was selected while another square was active.
C3_Witness ==
    /\ last.hadActive /\ ~last.wasSame /\ ~last.wasCandidate
    /\ activePos = last.pos
    /\ ActiveSquares = {last.pos}

\* C4: candidates exist only while a square is active, the moveable flags
\* are exactly the candidate set, and every candidate square is empty or
\* holds a piece of the other side than the piece on the active square.
C4_CandidatesAreCurrent ==
    /\ moveablePositions # <<>> => activePos # NoPos
    /\ MoveableSquares = Candidates
    /\ \A p \in Candidates :
          \/ pieceAt(p) = NoPiece
          \/ /\ pieceAt(activePos) # NoPiece
             /\ pieceAt(p).color # pieceAt(activePos).color

\* C4 witness: after a move, a piece is active with an empty candidate
\* square and one that holds a piece of the other side.
C4_Witness ==
    /\ clicks > 2
    /\ activePos # NoPos
    /\ \E p, q \in Candidates : pieceAt(p) = NoPiece /\ pieceAt(q) # NoPiece

\* C5 as claimed: an active square always holds a piece.
C5_ActiveHoldsPiece ==
    activePos # NoPos => pieceAt(activePos) # NoPiece

\* C5 amended: an active square holds a piece or has no candidates, and a
\* click on an empty square that is neither active nor a candidate makes
\* that square the active square.
C5_ActiveEmptyHasNoCandidates ==
    /\ activePos # NoPos =>
          (pieceAt(activePos) # NoPiece \/ moveablePositions = <<>>)
    /\ (last.pos # NoPos /\ ~last.wasSame /\ ~last.wasCandidate
            /\ last.piece = NoPiece) =>
          (activePos = last.pos /\ pieceAt(activePos) = NoPiece)

\* C5 witness: the active square is an empty square, selected while another
\* square was active.
C5_Witness ==
    /\ activePos # NoPos
    /\ pieceAt(activePos) = NoPiece
    /\ last.hadActive
    /\ clicks > 1

\* C6 as claimed: in Active(p), a click on an empty square that is not a
\* candidate and is not p leaves no active square and nothing highlighted.
C6_EmptyClickDeselects ==
    (last.hadActive /\ ~last.wasSame /\ ~last.wasCandidate
        /\ last.piece = NoPiece) =>
        (activePos = NoPos /\ ActiveSquares = {} /\ Highlighted = {})

\* C6 amended: in Active(p), a click on an empty square s that is not a
\* candidate and is not p makes s the active square with no candidates: s is
\* the only square flagged active and the only square highlighted.
C6_EmptyClickSelectsEmpty ==
    (last.hadActive /\ ~last.wasSame /\ ~last.wasCandidate
        /\ last.piece = NoPiece) =>
        /\ activePos = last.pos
        /\ moveablePositions = <<>>
        /\ ActiveSquares = {last.pos}
        /\ MoveableSquares = {}
        /\ Highlighted = {last.pos}
        /\ style[last.pos.row][last.pos.col] = ACTIVE_COLOR

\* C6 witness: from the initial state a square was selected and then an
\* empty square was clicked, which is now the active square.
C6_Witness ==
    /\ last.hadActive /\ ~last.wasSame /\ ~last.wasCandidate
    /\ last.piece = NoPiece
    /\ clicks = 2
    /\ activePos = last.pos

\* The candidate set of `piece` on square s of board brd, projected with
\* no square flagged or highlighted beforehand.
projectMoves(brd, s, piece) ==
    LET clean == [emptyState EXCEPT !.board =
                     [r \in Rows |-> [c \in Rows |->
                         [brd[r][c] EXCEPT !.active = FALSE, !.moveable = FALSE]]]]
        st == displayPotentialMoves(clean, piece, s.row, s.col)
    IN  {st.moveablePositions[k] : k \in 1 .. Len(st.moveablePositions)}

\* C7: a click on a square s that holds a piece and is neither active nor a
\* candidate makes s the active square; the candidate set is the projection
\* of that piece on the current board, and no other square stays active,
\* moveable or highlighted.
C7_SelectProjects ==
    (last.pos # NoPos /\ ~last.wasSame /\ ~last.wasCandidate
        /\ last.piece # NoPiece) =>
        /\ activePos = last.pos
        /\ pieceAt(last.pos) = last.piece
        /\ Candidates = projectMoves(board, last.pos, last.piece)
        /\ ActiveSquares = {last.pos}
        /\ MoveableSquares = Candidates
        /\ Highlighted = Candidates \cup {last.pos}

\* C7 witness: on the starting board a knight, which has two candidates,
\* was selected while another square was active.
C7_Witness ==
    /\ last.hadActive /\ ~last.wasSame /\ ~last.wasCandidate
    /\ last.piece # NoPiece
    /\ last.piece.type = "knight"
    /\ Cardinality(Candidates) = 2
    /\ clicks = 2

\* C8: in a state with active square p, a click on p leaves no active
\* square, no candidate, no flag and no highlight, and moves no piece.
C8_ToggleOff ==
    [][\A p \in Pos :
          (last'.pos = p /\ activePos = p) =>
              /\ activePos' = NoPos
              /\ moveablePositions' = <<>>
              /\ \A x \in Pos :
                    /\ board'[x.row][x.col].piece = board[x.row][x.col].piece
                    /\ ~board'[x.row][x.col].active
                    /\ ~board'[x.row][x.col].moveable
                    /\ style'[x.row][x.col] = board'[x.row][x.col].backgroundColor
              /\ children' = children]_vars

\* C8 witness: from the initial state a square holding a piece was clicked
\* and then clicked again.
C8_Witness ==
    /\ clicks = 2
    /\ last.wasSame /\ last.hadActive
    /\ last.piece # NoPiece
    /\ activePos = NoPos
    /\ Highlighted = {}

\* The square k steps from o in direction d.
onRay(o, d, k) == P(o.row + k * d[1], o.col + k * d[2])

RookDirs == {<<-1, 0>>, <<1, 0>>, <<0, -1>>, <<0, 1>>}
BishopDirs == {<<-1, -1>>, <<-1, 1>>, <<1, -1>>, <<1, 1>>}
KnightOffsets ==
    {<<-2, -1>>, <<-2, 1>>, <<-1, -2>>, <<-1, 2>>,
     <<1, -2>>, <<1, 2>>, <<2, -1>>, <<2, 1>>}
KingOffsets ==
    {<<-1, -1>>, <<-1, 0>>, <<-1, 1>>, <<0, -1>>,
     <<0, 1>>, <<1, -1>>, <<1, 0>>, <<1, 1>>}

\* Square p is empty or holds a piece of the other side than `side`.
EmptyOrEnemy(p, side) ==
    pieceAt(p) = NoPiece \/ pieceAt(p).color # side

\* The squares of the grid on a ray of dirs from o that are empty or hold an
\* enemy piece and have only empty squares between o and themselves.
SlidingSet(o, side, dirs) ==
    {p \in Pos :
        \E d \in dirs, k \in 1 .. (BOARD_DIMENSION - 1) :
            /\ p = onRay(o, d, k)
            /\ \A j \in 1 .. (k - 1) : pieceAt(onRay(o, d, j)) = NoPiece
            /\ EmptyOrEnemy(p, side)}

\* The squares of the grid at an offset of offs from o that are empty or
\* hold an enemy piece.
OffsetSet(o, side, offs) ==
    {p \in Pos :
        /\ \E d \in offs : p = onRay(o, d, 1)
        /\ EmptyOrEnemy(p, side)}

\* The projection has been applied to the piece on the origin square.
Projected == origin # NoPos /\ clicks = 1

\* C9: the candidate set of a rook (bishop) is exactly the set of squares in
\* the grid on one of its four axis (diagonal) rays that are empty or hold
\* an enemy piece and are reached over empty squares only.
C9_SlidingRays ==
    Projected =>
        /\ pieceAt(origin).type = "rook" =>
              Candidates = SlidingSet(origin, pieceAt(origin).color, RookDirs)
        /\ pieceAt(origin).type = "bishop" =>
              Candidates = SlidingSet(origin, pieceAt(origin).color, BishopDirs)

\* C9 witness: a rook was projected on a board with an enemy piece two steps
\* along a ray: the square before it and its own square are candidates, the
\* square behind it is in the grid and is none.
C9_Witness ==
    /\ Projected
    /\ pieceAt(origin).type = "rook"
    /\ \E d \in RookDirs :
          /\ onRay(origin, d, 3) \in Pos
          /\ pieceAt(onRay(origin, d, 2)) # NoPiece
          /\ onRay(origin, d, 1) \in Candidates
          /\ onRay(origin, d, 2) \in Candidates
          /\ onRay(origin, d, 3) \notin Candidates

\* The origin square holds the only piece of the board.
Lone == \A p \in Pos \ {origin} : pieceAt(p) = NoPiece

\* C10: the candidate set of a knight (king) is exactly the set of its eight
\* jump (neighbour) squares that are in the grid and do not hold a friendly
\* piece; a lone knight on (4,4) has the eight candidates listed.
C10_KnightAndKing ==
    Projected =>
        /\ pieceAt(origin).type = "knight" =>
              Candidates = OffsetSet(origin, pieceAt(origin).color, KnightOffsets)
        /\ pieceAt(origin).type = "king" =>
              Candidates = OffsetSet(origin, pieceAt(origin).color, KingOffsets)
        /\ (pieceAt(origin).type = "knight" /\ origin = P(4, 4) /\ Lone) =>
              Candidates = {P(2, 3), P(2, 5), P(3, 2), P(3, 6),
                            P(5, 2), P(5, 6), P(6, 3), P(6, 5)}

\* C10 witness: a lone white knight on (4,4) was projected and has eight
\* candidates.
C10_Witness ==
    /\ Projected
    /\ origin = P(4, 4)
    /\ pieceAt(origin) = [type |-> "knight", color |-> "white"]
    /\ Lone
    /\ Cardinality(Candidates) = 8

\* The square one step forward of a pawn of `side` on o: a row up for White,
\* a row down for Black.
Forward(o, side) ==
    P(IF side = "white" THEN o.row - 1 ELSE o.row + 1, o.col)

\* C11 as claimed: the candidate set of a pawn is exactly its forward square
\* whenever that square is in the grid, whatever occupies it.
C11_PawnForwardAlways ==
    (Projected /\ pieceAt(origin).type = "pawn") =>
        Candidates = {Forward(origin, pieceAt(origin).color)} \cap Pos

\* C11 amended: the candidate set of a pawn is exactly its forward square
\* whenever that square is in the grid and is empty or holds an enemy piece;
\* a friendly piece on it leaves the pawn without a candidate.  The pawn
\* never has a second candidate.
C11_PawnForwardUnlessFriendly ==
    (Projected /\ pieceAt(origin).type = "pawn") =>
        /\ Candidates =
              {p \in {Forward(origin, pieceAt(origin).color)} \cap Pos :
                  EmptyOrEnemy(p, pieceAt(origin).color)}
        /\ Len(moveablePositions) <= 1

\* C11 witness: a black pawn was projected with an enemy piece on its
\* forward square, which is its one candidate.
C11_Witness ==
    /\ Projected
    /\ pieceAt(origin) = [type |-> "pawn", color |-> "black"]
    /\ Forward(origin, "black") \in Pos
    /\ pieceAt(Forward(origin, "black")) # NoPiece
    /\ Candidates = {Forward(origin, "black")}

\* C12: the candidate set of a queen equals the union of the candidate set
\* of a rook and that of a bishop of the same side on the same square of the
\* same board, and no square is listed twice.
C12_QueenIsRookAndBishop ==
    (Projected /\ pieceAt(origin).type = "queen") =>
        /\ Candidates =
              projectMoves(board, origin,
                           [type |-> "rook", color |-> pieceAt(origin).color])
              \cup
              projectMoves(board, origin,
                           [type |-> "bishop", color |-> pieceAt(origin).color])
        /\ Len(moveablePositions) = Cardinality(Candidates)

\* C12 witness: a queen was projected that has a candidate on a rook ray and
\* one on a bishop ray, and a candidate that holds an enemy piece.
C12_Witness ==
    /\ Projected
    /\ pieceAt(origin).type = "queen"
    /\ \E d \in RookDirs : onRay(origin, d, 1) \in Candidates
    /\ \E d \in BishopDirs : onRay(origin, d, 1) \in Candidates
    /\ \E p \in Candidates : pieceAt(p) # NoPiece

\* C13: the candidate set never contains the square it was projected from:
\* the active square is never a candidate and never flagged moveable.
C13_OriginIsNoCandidate ==
    /\ Projected => (origin = activePos /\ origin \notin Candidates)
    /\ activePos # NoPos =>
          (activePos \notin Candidates /\ activePos \notin MoveableSquares)

\* C13 witness: a king away from the edges was projected and has its eight
\* neighbours, not its own square, as candidates.
C13_Witness ==
    /\ Projected
    /\ pieceAt(origin).type = "king"
    /\ Candidates = {p \in Pos : \E d \in KingOffsets : p = onRay(origin, d, 1)}
    /\ Cardinality(Candidates) = 8

\* C14: a click changes the piece of some square exactly when the clicked
\* square is in the current candidate set: selecting, deselecting and
\* reselecting leave all 64 squares' pieces and images alone, and a click on
\* a candidate moves, whichever side the piece belongs to.
C14_OnlyCandidateClicksMove ==
    [][\A q \in Pos :
          (last'.pos = q) =>
              ((q \notin Candidates) <=>
                  /\ \A x \in Pos :
                        board'[x.row][x.col].piece = board[x.row][x.col].piece
                  /\ children' = children)]_vars

\* C14 witness: right after the two opening moves of the white knight, a
\* white piece moved again (no turn order), and a black piece can be
\* selected and moved next.
C14_Witness ==
    /\ clicks = 2
    /\ last.wasCandidate /\ last.hadActive
    /\ last.piece = NoPiece
    /\ pieceAt(last.pos) # NoPiece
    /\ pieceAt(last.pos).color = "white"
    /\ pieceAt(last.pos).type = "pawn"

\* The back rank of the standard layout, by column (first column is 0).
BackRank ==
    <<"rook", "knight", "bishop", "queen", "king", "bishop", "knight", "rook">>

\* The piece of square p in the standard starting layout.
StandardPiece(p) ==
    CASE p.row = 0 -> [type |-> BackRank[p.col + 1], color |-> "black"]
      [] p.row = 1 -> [type |-> "pawn", color |-> "black"]
      [] p.row = 6 -> [type |-> "pawn", color |-> "white"]
      [] p.row = 7 -> [type |-> BackRank[p.col + 1], color |-> "white"]
      [] OTHER -> NoPiece

\* C15: before the first click the board is the standard starting layout
\* (black back rank on row 0, black pawns on row 1, white pawns on row 6,
\* white back rank on row 7, rows 2-5 empty; back rank order rook, knight,
\* bishop, queen, king, bishop, knight, rook), each piece shown by its own
\* image, no square is active or moveable, no position is active and the
\* candidate set is empty.
C15_StandardStart ==
    (clicks = 0) =>
        /\ \A p \in Pos :
              /\ pieceAt(p) = StandardPiece(p)
              /\ children[p.row][p.col] =
                    IF StandardPiece(p) = NoPiece THEN <<>>
                    ELSE <<StandardPiece(p)>>
        /\ ActiveSquares = {} /\ MoveableSquares = {}
        /\ activePos = NoPos
        /\ moveablePositions = <<>>

\* C15 witness: the board before the first click, with the white king on
\* (7,4), the black queen on (0,3) and 32 pieces in all.
C15_Witness ==
    /\ clicks = 0
    /\ pieceAt(P(7, 4)) = [type |-> "king", color |-> "white"]
    /\ pieceAt(P(0, 3)) = [type |-> "queen", color |-> "black"]
    /\ Cardinality({p \in Pos : pieceAt(p) # NoPiece}) = 32

\* The four rook squares of the starting board.
RookSquares == {P(0, 0), P(0, 7), P(7, 0), P(7, 7)}

\* C16: on the starting board, a first click on any of the four rooks makes
\* that rook's square the active one with an empty candidate set, and a
\* first click on the white pawn of (6,4) makes it active with the
\* candidate set {(5,4)} exactly.
C16_StartScenarios ==
    (clicks = 1) =>
        /\ (last.pos \in RookSquares) =>
              /\ last.piece.type = "rook"
              /\ activePos = last.pos
              /\ ActiveSquares = {last.pos}
              /\ moveablePositions = <<>>
              /\ MoveableSquares = {}
        /\ (last.pos = P(6, 4)) =>
              /\ last.piece = [type |-> "pawn", color |-> "white"]
              /\ activePos = P(6, 4)
              /\ ActiveSquares = {P(6, 4)}
              /\ moveablePositions = <<P(5, 4)>>
              /\ MoveableSquares = {P(5, 4)}

\* C16 witness: the white rook of (7,0) was clicked first; it is active,
\* between the board edge and its own pawn and knight, with no candidate.
C16_Witness ==
    /\ clicks = 1
    /\ last.pos = P(7, 0)
    /\ activePos = P(7, 0)
    /\ pieceAt(P(7, 0)) = [type |-> "rook", color |-> "white"]
    /\ pieceAt(P(6, 0)).color = "white" /\ pieceAt(P(7, 1)).color = "white"
    /\ Candidates = {}

\* The first-step offsets of a piece: the one forward step of a pawn, the
\* offsets of a knight or king, the directions of a rook, bishop or queen.
FirstSteps(piece) ==
    CASE piece.type = "pawn" ->
             {IF piece.color = "white" THEN <<-1, 0>> ELSE <<1, 0>>}
      [] piece.type = "rook" -> RookDirs
      [] piece.type = "bishop" -> BishopDirs
      [] piece.type = "queen" -> RookDirs \cup BishopDirs
      [] piece.type = "knight" -> KnightOffsets
      [] piece.type = "king" -> KingOffsets

\* C17: after a piece is selected, every candidate lies inside the grid; a
\* target outside the grid raises nothing and does not stop the projection:
\* the selection succeeds, and every first step that stays inside the grid
\* onto an empty or enemy-held square is a candidate. A white pawn on row 0
\* and a black pawn on row 7 are selected with an empty candidate set.
C17_OutsideTargetsDropped ==
    Projected =>
        /\ Candidates \subseteq Pos
        /\ ~thrown
        /\ activePos = origin /\ ActiveSquares = {origin}
        /\ \A d \in FirstSteps(pieceAt(origin)) :
              LET t == onRay(origin, d, 1)
              IN  (t \in Pos /\ EmptyOrEnemy(t, pieceAt(origin).color))
                      => t \in Candidates
        /\ (pieceAt(origin).type = "pawn"
                /\ Forward(origin, pieceAt(origin).color) \notin Pos)
              => (moveablePositions = <<>> /\ MoveableSquares = {})

\* C17 witness: a knight selected in a corner, where six of its eight
\* targets are outside the grid and the other two are candidates.
C17_Witness ==
    /\ Projected
    /\ pieceAt(origin).type = "knight"
    /\ origin = P(0, 0)
    /\ Cardinality({d \in KnightOffsets : onRay(origin, d, 1) \notin Pos}) = 6
    /\ Candidates = {P(1, 2), P(2, 1)}
    /\ ~thrown /\ activePos = origin

\* A white pawn on row 0 has been selected: it is active and has no
\* candidate.
C17_PawnOnLastRow ==
    /\ Projected
    /\ pieceAt(origin) = [type |-> "pawn", color |-> "white"]
    /\ origin.row = 0
    /\ activePos = origin /\ Candidates = {}

\* The number of pieces of a side on board brd.
SideCount(brd, side) ==
    Cardinality({p \in Pos : brd[p.row][p.col].piece.color = side})

\* C18: a click never raises the number of pieces of either side and lowers
\* the total by at most one.  A piece leaves its square only by moving to
\* the clicked candidate square or by a piece of the other side moving onto
\* it; a candidate square never holds a piece of the mover's side; a piece
\* appears on a square only by arriving from the active square, which it
\* leaves empty (nothing is created or duplicated).  A click that changes no
\* square's piece changes no count, so the counts are compared for the
\* other clicks.
C18_PiecesOnlyCaptured ==
    [][\A q \in Pos :
          (last'.pos = q) =>
              /\ (q \in Candidates) =>
                    /\ activePos # NoPos
                    /\ pieceAt(activePos) # NoPiece
                    /\ pieceAt(q).color # pieceAt(activePos).color
              /\ (\E x \in Pos : board'[x.row][x.col].piece # pieceAt(x)) =>
                    /\ \A side \in Color :
                          SideCount(board', side) <= SideCount(board, side)
                    /\ SideCount(board', "white") + SideCount(board', "black") >=
                          SideCount(board, "white") + SideCount(board, "black") - 1
                    /\ \A x \in Pos :
                          (board'[x.row][x.col].piece # pieceAt(x)) =>
                              /\ activePos # NoPos /\ q \in Candidates
                              /\ board'[q.row][q.col].piece = pieceAt(activePos)
                              /\ board'[activePos.row][activePos.col].piece = NoPiece
                              /\ \/ x = activePos
                                 \/ /\ x = q
                                    /\ pieceAt(x) # NoPiece =>
                                          pieceAt(x).color # pieceAt(activePos).color]_vars

\* C18 witness: the black pawn of (1,3) has gone to (2,3) and on to (3,3),
\* taking the white knight there: 15 white pieces and 16 black ones are left.
C18_Witness ==
    /\ clicks = 4
    /\ last.pos = P(3, 3) /\ last.wasCandidate
    /\ last.piece = [type |-> "knight", color |-> "white"]
    /\ pieceAt(P(3, 3)) = [type |-> "pawn", color |-> "black"]
    /\ SideCount(board, "white") = 15
    /\ SideCount(board, "black") = 16

\* The static base colour of square p: light where row + col is even.
BaseColor(p) == IF (p.row + p.col) % 2 = 0 THEN "#f0d9b5" ELSE "#b58863"

\* C19: in every state the displayed colour of a square follows from the
\* selection: the active square shows ACTIVE_COLOR, each candidate square
\* shows POTENTIAL_MOVE_COLOR and every other square shows its base colour,
\* which never changes; with no active position all 64 squares show their
\* base colour.
C19_ColoursFollowSelection ==
    /\ \A p \in Pos :
          /\ board[p.row][p.col].backgroundColor = BaseColor(p)
          /\ style[p.row][p.col] =
                IF p = activePos THEN ACTIVE_COLOR
                ELSE IF p \in Candidates THEN POTENTIAL_MOVE_COLOR
                ELSE BaseColor(p)
    /\ (activePos = NoPos) => Highlighted = {}

\* C19 witness: after a move, a piece is selected on a square other than
\* the two squares of the move; it shows red, its two or more candidates
\* green, and the squares of the move are back to their base colours.
C19_Witness ==
    /\ clicks >= 3
    /\ activePos # NoPos /\ pieceAt(activePos) # NoPiece
    /\ style[activePos.row][activePos.col] = ACTIVE_COLOR
    /\ Cardinality(Candidates) >= 2
    /\ \A p \in Candidates : style[p.row][p.col] = POTENTIAL_MOVE_COLOR
    /\ \E a, b \in Pos \ (Candidates \cup {activePos}) :
          /\ a # b
          /\ pieceAt(a) = NoPiece /\ StandardPiece(a) # NoPiece
          /\ pieceAt(b) # NoPiece /\ pieceAt(b) # StandardPiece(b)
          /\ style[a.row][a.col] = BaseColor(a)
          /\ style[b.row][b.col] = BaseColor(b)

\* C20: from the starting board no click ends in an exception: every piece
\* on the board has one of the six kinds and one of the two sides, every
\* square holding a piece shows one image, and no square is flagged active
\* while no active position is recorded.
C20_NoUnknownPieceKind ==
    /\ ~thrown
    /\ \A p \in Pos :
          /\ pieceAt(p) = NoPiece \/ pieceAt(p) \in Pieces
          /\ Len(children[p.row][p.col]) = IF pieceAt(p) = NoPiece THEN 0 ELSE 1
    /\ (activePos = NoPos) => ActiveSquares = {}
    /\ (activePos # NoPos) => ActiveSquares = {activePos}

\* C20 witness: after a move of another piece, a king is selected: the
\* dispatch on its kind has run to the end and its square is the recorded
\* active position.
C20_Witness ==
    /\ clicks >= 3
    /\ \E p \in Pos : pieceAt(p) # StandardPiece(p)
    /\ activePos # NoPos
    /\ pieceAt(activePos).type = "king"
    /\ last.pos = activePos /\ ~last.wasCandidate
    /\ board[activePos.row][activePos.col].active
    /\ ~thrown

====
